---- MODULE Spec2Model ----
(***************************************************************************)
(* Device-communication layer of Server/main.py: the packet decoder        *)
(* (parse_packet), the capacity-1 queue used as a "latest value" mailbox   *)
(* (_set_latest_package / get_state), the background reading loop          *)
(* (_read_loop), the command writers (led_on, led_off, rgb, presets,       *)
(* _send) and shutdown (close).                                            *)
(*                                                                         *)
(* Threads are interleaved at the granularity of the calls that take the   *)
(* queue's mutex or touch the serial port; everything a thread does on its *)
(* own locals between two such calls is one step.                          *)
(***************************************************************************)
EXTENDS Integers, Sequences, FiniteSets, TLC

VARIABLES
    \* ---- shared state of a Nano33SenseRev2 session ----
    running,        \* self._running
    serOpen,        \* self.ser.is_open
    serReleases,    \* how many times the OS handle of self.ser was released
    ctorRet,        \* how Nano33SenseRev2(...) ended: "ok", "raise", or
                    \* "pending" while it has not been called
    queue,          \* self._latest_pkt: the items of the queue.Queue(maxsize=1)
    unfinished,     \* self._latest_pkt.unfinished_tasks
    wire,           \* the bytes written to the serial link so far, in order
    \* ---- the reading-loop thread (_read_loop) ----
    loopPc,         \* position of the thread
    raw,            \* the line returned by the last readline
    pkt,            \* the packet being handed to on_packet / the mailbox
    now,            \* clock read by datetime.now: one tick per decoded line
    linesRead,      \* lines the link has delivered so far
    drained,        \* this publish removed an unconsumed reading in clear_queue
    lastPut,        \* timestamp of the reading handed to the last
                    \* _set_latest_package call that has ended
    callbacks,      \* on_packet invocations so far
    readsAfterStop, \* readline calls begun since _running was cleared
    \* ---- threads that call get_state ----
    takePc,         \* position of each taker
    takeVal,        \* the value local of get_state (NoPacket: nothing yet)
    takeRet,        \* what the last get_state of the taker returned
    takeSeen,       \* lastPut at the moment the taker's get succeeded
    sawEmpty,       \* the mailbox was empty at some moment of the current take
    takes,          \* get_state calls begun so far
    delivered,      \* per timestamp, how many get_state calls returned it
    \* ---- the thread that calls close (main) ----
    closePc,
    closeCalls,     \* close() calls begun
    closesDone,     \* close() calls returned
    \* ---- threads that call the command methods ----
    sendPc,         \* position of each command caller
    sendBuf,        \* bytes of the command line not yet written
    sendMsg,        \* the whole line handed to ser.write by the current call
    chunks,         \* os.write calls made by the current ser.write
    rgbArgs,        \* the arguments of the last rgb call of each caller
    sendRet,        \* how the last command call of each caller ended
    sendCalls,      \* command calls begun so far
    \* ---- the decoder applied to one line ----
    parseLine,      \* the input line
    parseOut        \* the outcome of parse_packet(parseLine)

vars == << running, serOpen, serReleases, ctorRet, queue, unfinished, wire,
           loopPc, raw, pkt, now, linesRead, drained, lastPut, callbacks,
           readsAfterStop,
           takePc, takeVal, takeRet, takeSeen, sawEmpty, takes, delivered,
           closePc, closeCalls, closesDone,
           sendPc, sendBuf, sendMsg, chunks, rgbArgs, sendRet, sendCalls,
           parseLine, parseOut >>

sessionVars == << running, serOpen, serReleases, ctorRet >>
mailboxVars == << queue, unfinished >>
loopVars    == << loopPc, raw, pkt, now, linesRead, drained, lastPut,
                  callbacks, readsAfterStop >>
takeVars    == << takePc, takeVal, takeRet, takeSeen, takes, delivered >>
closeVars   == << closePc, closeCalls, closesDone >>
sendVars    == << wire, sendPc, sendBuf, sendMsg, chunks, rgbArgs, sendRet,
                  sendCalls >>
parseVars   == << parseLine, parseOut >>

----------------------------------------------------------------------------
(***************************************************************************)
(* Bounds of the model.                                                    *)
(***************************************************************************)
MaxLines   == 2   \* lines the serial link delivers in one run
MaxTakes   == 2   \* get_state calls in one run
MaxMembers == 2   \* members of a JSON object line given to the decoder
MaxChunks  == 2   \* os.write calls one ser.write may need
MaxCmds    == 2   \* command calls in one run
MaxStopReads == 2 \* cap of the count of readline calls after the flag
                  \* was cleared

----------------------------------------------------------------------------
(***************************************************************************)
(* JSON text lines and Python values.                                      *)
(*                                                                         *)
(* A line is [t, m]: t says what the text is ("text": not JSON; "int",     *)
(* "str", "list", "null": JSON of that type; "obj": a JSON object) and m   *)
(* is the object's members in textual order, each <<key, value>>.          *)
(* A value is [k, v]: k its type, v its numbers (floats in tenths).        *)
(***************************************************************************)
PyNone == [k |-> "None", v |-> << >>]

JFloat(n) == [k |-> "float", v |-> <<n>>]
JInt(n)   == [k |-> "int", v |-> <<n>>]
JStr      == [k |-> "str", v |-> << >>]
JNull     == [k |-> "null", v |-> << >>]
JList(s)  == [k |-> "list", v |-> s]

FloatKeys == {"hs3003_t_c", "hs3003_h_rh", "lps22hb_p_kpa", "lps22hb_t_c"}
IntKeys   == {"apds_prox", "apds_gesture"}
ColorKeys == {"apds_color"}
VecKeys   == {"acc_g", "gyro_dps", "mag_uT"}
RecognizedKeys == FloatKeys \cup IntKeys \cup ColorKeys \cup VecKeys

\* json.loads turns a JSON value into the Python value: null becomes None,
\* everything else keeps its type and content.
JsonToPy(j) == IF j.k = "null" THEN PyNone ELSE j

\* The last member of the object text m with key `key` (JSON objects with a
\* repeated name keep the last value).
LastIndex(m, key) ==
    CHOOSE i \in 1..Len(m) :
        /\ m[i][1] = key
        /\ \A j \in (i+1)..Len(m) : m[j][1] # key

MemberKeys(m) == { m[i][1] : i \in 1..Len(m) }

\* json.loads(line) raises (ValueError) exactly on text that is not JSON.
json_loads_raises(line) == line.t = "text"

\* json.loads(line) for JSON text: a dict for an object, else a value of the
\* JSON type, which is no dict.
json_loads(line) ==
    IF line.t = "obj"
    THEN [ty |-> "dict",
          d  |-> [key \in MemberKeys(line.m) |->
                     JsonToPy(line.m[LastIndex(line.m, key)][2])]]
    ELSE [ty |-> line.t, d |-> [key \in {} |-> PyNone]]

dict_get_Shifted(obj, key) ==
    IF key = "hs3003_h_rh" /\ "hs3003_t_c" \in DOMAIN obj.d
    THEN obj.d["hs3003_t_c"]
    ELSE IF key \in DOMAIN obj.d THEN obj.d[key] ELSE PyNone

\* obj.get(key): the value under key, None when the dict has no such key.
dict_get(obj, key) ==
    IF key \in DOMAIN obj.d THEN obj.d[key] ELSE PyNone

\* SensorPacket(timestamp=..., hs3003_t_c=obj.get("hs3003_t_c"), ...)
SensorPacket(timestamp, obj) ==
    [ timestamp     |-> timestamp,
      hs3003_t_c    |-> dict_get(obj, "hs3003_t_c"),
      hs3003_h_rh   |-> dict_get(obj, "hs3003_h_rh"),
      lps22hb_p_kpa |-> dict_get(obj, "lps22hb_p_kpa"),
      lps22hb_t_c   |-> dict_get(obj, "lps22hb_t_c"),
      apds_prox     |-> dict_get(obj, "apds_prox"),
      apds_color    |-> dict_get(obj, "apds_color"),
      apds_gesture  |-> dict_get(obj, "apds_gesture"),
      acc_g         |-> dict_get(obj, "acc_g"),
      gyro_dps      |-> dict_get(obj, "gyro_dps"),
      mag_uT        |-> dict_get(obj, "mag_uT") ]

\* The packet record of a call that produced none.
NoPacket == SensorPacket(0, [ty |-> "dict", d |-> [key \in {} |-> PyNone]])

\* parse_packet(line) at clock value t.  ret is what the call does:
\*   "None"   : json.loads raised, the except clause returns None;
\*   "raise"  : json.loads returned a value that is no dict, and obj.get,
\*              outside the try, raises AttributeError to the caller;
\*   "packet" : a SensorPacket is returned.
parse_packet(line, t) ==
    IF json_loads_raises(line)
    THEN [ret |-> "None", pkt |-> NoPacket]
    ELSE LET obj == json_loads(line) IN
         IF obj.ty # "dict"
         THEN [ret |-> "raise", pkt |-> NoPacket]
         ELSE [ret |-> "packet", pkt |-> SensorPacket(t, obj)]

\* The field of a packet named by a key string.
Field(p, key) ==
    CASE key = "hs3003_t_c"    -> p.hs3003_t_c
      [] key = "hs3003_h_rh"   -> p.hs3003_h_rh
      [] key = "lps22hb_p_kpa" -> p.lps22hb_p_kpa
      [] key = "lps22hb_t_c"   -> p.lps22hb_t_c
      [] key = "apds_prox"     -> p.apds_prox
      [] key = "apds_color"    -> p.apds_color
      [] key = "apds_gesture"  -> p.apds_gesture
      [] key = "acc_g"         -> p.acc_g
      [] key = "gyro_dps"      -> p.gyro_dps
      [] key = "mag_uT"        -> p.mag_uT

----------------------------------------------------------------------------
(***************************************************************************)
(* The lines the serial link delivers to the reading loop: a telemetry     *)
(* packet, a human-readable debug line, and a line that is valid JSON but  *)
(* no object.                                                              *)
(***************************************************************************)
TempLine   == [t |-> "obj",
               m |-> << <<"hs3003_t_c", JFloat(215)>>,
                        <<"hs3003_h_rh", JFloat(402)>> >>]
TextLine   == [t |-> "text", m |-> << >>]
NumberLine == [t |-> "int", m |-> << >>]
SerialLines == {TempLine, TextLine, NumberLine}

NoLine == [t |-> "none", m |-> << >>]

Takers  == {"t1", "t2"}     \* threads calling get_state
Callers == {"c1", "c2"}     \* threads calling the command methods

QueueMaxsize == 1           \* queue.Queue(maxsize=1)
MaxCloses == 2              \* close() calls made by the main thread

\* What a get_state call returned: nothing yet, None, or a packet.
RetPending     == [st |-> "pending", pkt |-> NoPacket]

RetNone_Uncaught == [st |-> "raise", pkt |-> NoPacket]

RetNone        == [st |-> "None", pkt |-> NoPacket]

RetRaised      == [st |-> "raise", pkt |-> NoPacket]
RetPacket(p)   == [st |-> "packet", pkt |-> p]

----------------------------------------------------------------------------
(***************************************************************************)
(* The state after Nano33SenseRev2.__init__ returned: the port is open,    *)
(* the flag is set, the queue is empty and the thread has been started.    *)
(***************************************************************************)
InitSession ==
    /\ running = TRUE
    /\ serOpen = TRUE
    /\ serReleases = 0
    /\ ctorRet = "ok"
    /\ queue = << >>
    /\ unfinished = 0
    /\ loopPc = "while"
    /\ raw = NoLine
    /\ pkt = NoPacket
    /\ now = 0
    /\ linesRead = 0
    /\ drained = FALSE
    /\ lastPut = 0
    /\ callbacks = 0
    /\ readsAfterStop = 0
    /\ takePc = [t \in Takers |-> "idle"]
    /\ takeVal = [t \in Takers |-> NoPacket]
    /\ takeRet = [t \in Takers |-> RetPending]
    /\ takeSeen = [t \in Takers |-> 0]
    /\ sawEmpty = [t \in Takers |-> FALSE]
    /\ takes = 0
    /\ delivered = [n \in 1..MaxLines |-> 0]
    /\ closePc = "idle"
    /\ closeCalls = 0
    /\ closesDone = 0

InitSend ==
    /\ wire = << >>
    /\ sendPc = [c \in Callers |-> "idle"]
    /\ sendBuf = [c \in Callers |-> << >>]
    /\ sendMsg = [c \in Callers |-> << >>]
    /\ chunks = [c \in Callers |-> 0]
    /\ rgbArgs = [c \in Callers |-> <<0, 0, 0>>]
    /\ sendRet = [c \in Callers |-> "none"]
    /\ sendCalls = 0

InitParse ==
    /\ parseLine = NoLine
    /\ parseOut = [ret |-> "pending", pkt |-> NoPacket]

----------------------------------------------------------------------------
(***************************************************************************)
(* The mailbox as its callers see it.  A publish that has removed the      *)
(* previous reading and not yet put the new one is in progress: the        *)
(* mailbox it replaces one reading in is not empty.                        *)
(***************************************************************************)
InPublish == loopPc \in {"clear_get", "clear_done", "put"}
MailboxEmpty == queue = << >> /\ ~(InPublish /\ drained)

\* Every step records, for each get_state call in progress, whether the
\* mailbox has been empty at some moment since the call began.
Observe ==
    sawEmpty' = [t \in Takers |->
        IF takePc'[t] = "idle" THEN sawEmpty[t]
        ELSE IF takePc[t] = "idle" THEN MailboxEmpty'
        ELSE sawEmpty[t] \/ MailboxEmpty']

----------------------------------------------------------------------------
(***************************************************************************)
(* queue.Queue operations (each runs under the queue's mutex).             *)
(***************************************************************************)
QueueEmpty(q) == Len(q) = 0
QueueFull(q)  == Len(q) >= QueueMaxsize
QueueGet_Keep(q) == q

QueueGet(q)   == Tail(q)         \* the queue after get / get_nowait

QueuePut_Drop(q, x) == q

QueuePut(q, x) == Append(q, x)   \* the queue after put

\* clear_queue, lines 89-90: get_nowait raises queue.Empty, which ends the
\* loop of clear_queue, exactly when the queue holds nothing.
ClearQueueStops_Skip(q) == TRUE

ClearQueueStops(q) == QueueEmpty(q)

LoopCond_Always(r) == TRUE

\* while self._running
LoopCond(r) == r

(***************************************************************************)
(* _read_loop                                                              *)
(***************************************************************************)
\* line 159: the loop condition.
LoopWhile ==
    /\ loopPc = "while"
    /\ loopPc' = IF LoopCond(running) THEN "readline" ELSE "done"
    /\ UNCHANGED << raw, pkt, now, linesRead, drained, lastPut, callbacks,
                    readsAfterStop >>
    /\ UNCHANGED << sessionVars, mailboxVars, takeVars, closeVars, sendVars,
                    parseVars >>
    /\ Observe

\* line 160: self.ser.readline() is called.  On a port that is not open the
\* call raises at once, and nothing in _read_loop catches it.
LoopReadline ==
    /\ loopPc = "readline"
    /\ loopPc' = IF serOpen THEN "reading" ELSE "crashed"
    /\ readsAfterStop' = IF running \/ readsAfterStop >= MaxStopReads
                          THEN readsAfterStop ELSE readsAfterStop + 1
    /\ UNCHANGED << raw, pkt, now, linesRead, drained, lastPut, callbacks >>
    /\ UNCHANGED << sessionVars, mailboxVars, takeVars, closeVars, sendVars,
                    parseVars >>
    /\ Observe

\* readline returns a line of the link.
LoopReadLine ==
    /\ loopPc = "reading"
    /\ serOpen
    /\ linesRead < MaxLines
    /\ \E l \in SerialLines : raw' = l
    /\ linesRead' = linesRead + 1
    /\ loopPc' = "decode"
    /\ UNCHANGED << pkt, now, drained, lastPut, callbacks, readsAfterStop >>
    /\ UNCHANGED << sessionVars, mailboxVars, takeVars, closeVars, sendVars,
                    parseVars >>
    /\ Observe

\* readline returns b"" after the read timeout; lines 161-162: continue.
LoopReadTimeout ==
    /\ loopPc = "reading"
    /\ loopPc' = "while"
    /\ UNCHANGED << raw, pkt, now, linesRead, drained, lastPut, callbacks,
                    readsAfterStop >>
    /\ UNCHANGED << sessionVars, mailboxVars, takeVars, closeVars, sendVars,
                    parseVars >>
    /\ Observe

\* readline raises (an I/O error of the link, or the port closed under the
\* read); nothing in _read_loop catches it and the thread ends.
LoopReadError ==
    /\ loopPc = "reading"
    /\ loopPc' = "crashed"
    /\ UNCHANGED << raw, pkt, now, linesRead, drained, lastPut, callbacks,
                    readsAfterStop >>
    /\ UNCHANGED << sessionVars, mailboxVars, takeVars, closeVars, sendVars,
                    parseVars >>
    /\ Observe

\* lines 164-166: the line decodes to a packet.
LoopDecodePacket ==
    /\ loopPc = "decode"
    /\ parse_packet(raw, now + 1).ret = "packet"
    /\ pkt' = parse_packet(raw, now + 1).pkt
    /\ now' = now + 1
    /\ loopPc' = "on_packet"
    /\ UNCHANGED << raw, linesRead, drained, lastPut, callbacks,
                    readsAfterStop >>
    /\ UNCHANGED << sessionVars, mailboxVars, takeVars, closeVars, sendVars,
                    parseVars >>
    /\ Observe

\* lines 171-174: parse_packet returned None; the line is logged.
LoopDecodeNone ==
    /\ loopPc = "decode"
    /\ parse_packet(raw, now + 1).ret = "None"
    /\ loopPc' = "while"
    /\ UNCHANGED << raw, pkt, now, linesRead, drained, lastPut, callbacks,
                    readsAfterStop >>
    /\ UNCHANGED << sessionVars, mailboxVars, takeVars, closeVars, sendVars,
                    parseVars >>
    /\ Observe

\* line 165: parse_packet raised; nothing in _read_loop catches it.
LoopDecodeRaise ==
    /\ loopPc = "decode"
    /\ parse_packet(raw, now + 1).ret = "raise"
    /\ loopPc' = "crashed"
    /\ UNCHANGED << raw, pkt, now, linesRead, drained, lastPut, callbacks,
                    readsAfterStop >>
    /\ UNCHANGED << sessionVars, mailboxVars, takeVars, closeVars, sendVars,
                    parseVars >>
    /\ Observe

OnPacketSet_Missing == FALSE

\* line 167, `if self.on_packet`: the session of line 200 is built with
\* on_packet=show.
OnPacketSet == TRUE

\* lines 167-168: on_packet (show) is called and returns.
LoopOnPacket ==
    /\ loopPc = "on_packet"
    /\ callbacks' = IF OnPacketSet THEN callbacks + 1 ELSE callbacks
    /\ drained' = FALSE
    /\ loopPc' = "clear_get"
    /\ UNCHANGED << raw, pkt, now, linesRead, lastPut, readsAfterStop >>
    /\ UNCHANGED << sessionVars, mailboxVars, takeVars, closeVars, sendVars,
                    parseVars >>
    /\ Observe

\* clear_queue, lines 86-90: q.get_nowait() removes an item, or raises
\* queue.Empty and the loop of clear_queue breaks.
LoopClearGet ==
    /\ loopPc = "clear_get"
    /\ IF ClearQueueStops(queue)
       THEN /\ loopPc' = "put"
            /\ UNCHANGED << queue, drained >>
       ELSE /\ queue' = QueueGet(queue)
            /\ drained' = TRUE
            /\ loopPc' = "clear_done"
    /\ UNCHANGED << raw, pkt, now, linesRead, lastPut, callbacks,
                    readsAfterStop, unfinished >>
    /\ UNCHANGED << sessionVars, takeVars, closeVars, sendVars, parseVars >>
    /\ Observe

\* clear_queue, line 88: q.task_done() (ValueError when called more often
\* than items were put).
LoopClearDone ==
    /\ loopPc = "clear_done"
    /\ IF unfinished <= 0
       THEN /\ loopPc' = "crashed"
            /\ UNCHANGED unfinished
       ELSE /\ unfinished' = unfinished - 1
            /\ loopPc' = "clear_get"
    /\ UNCHANGED << raw, pkt, now, linesRead, drained, lastPut, callbacks,
                    readsAfterStop, queue >>
    /\ UNCHANGED << sessionVars, takeVars, closeVars, sendVars, parseVars >>
    /\ Observe

\* line 156: self._latest_pkt.put(pkt, block=False) (queue.Full when the
\* queue holds maxsize items).
LoopPut ==
    /\ loopPc = "put"
    /\ IF QueueFull(queue)
       THEN /\ loopPc' = "crashed"
            /\ UNCHANGED << queue, unfinished >>
       ELSE /\ queue' = QueuePut(queue, pkt)
            /\ unfinished' = unfinished + 1
            /\ loopPc' = "while"
    /\ lastPut' = pkt.timestamp
    /\ drained' = FALSE
    /\ UNCHANGED << raw, pkt, now, linesRead, callbacks, readsAfterStop >>
    /\ UNCHANGED << sessionVars, takeVars, closeVars, sendVars, parseVars >>
    /\ Observe

Loop ==
    \/ LoopWhile
    \/ LoopReadline
    \/ LoopReadLine
    \/ LoopReadTimeout
    \/ LoopReadError
    \/ LoopDecodePacket
    \/ LoopDecodeNone
    \/ LoopDecodeRaise
    \/ LoopOnPacket
    \/ LoopClearGet
    \/ LoopClearDone
    \/ LoopPut

LoopAlive == loopPc \notin {"done", "crashed"}

----------------------------------------------------------------------------
(***************************************************************************)
(* get_state, called from any thread.                                      *)
(***************************************************************************)
TakeRemove_Peek(q) == q

\* The queue after the timed get of get_state has returned its head.
TakeRemove(q) == QueueGet(q)

\* get_state is called.
TakeCall(t) ==
    /\ takePc[t] = "idle"
    /\ takes < MaxTakes
    /\ takes' = takes + 1
    /\ takePc' = [takePc EXCEPT ![t] = "get"]
    /\ takeRet' = [takeRet EXCEPT ![t] = RetPending]
    /\ takeVal' = [takeVal EXCEPT ![t] = NoPacket]
    /\ UNCHANGED << takeSeen, delivered >>
    /\ UNCHANGED << sessionVars, mailboxVars, loopVars, closeVars, sendVars,
                    parseVars >>
    /\ Observe

\* line 139: self._latest_pkt.get(timeout=2) finds an item and removes it.
TakeGet(t) ==
    /\ takePc[t] = "get"
    /\ ~QueueEmpty(queue)
    /\ takeVal' = [takeVal EXCEPT ![t] = Head(queue)]
    /\ takeSeen' = [takeSeen EXCEPT ![t] = lastPut]
    /\ queue' = TakeRemove(queue)
    /\ takePc' = [takePc EXCEPT ![t] = "task_done"]
    /\ UNCHANGED << takeRet, takes, delivered, unfinished >>
    /\ UNCHANGED << sessionVars, loopVars, closeVars, sendVars, parseVars >>
    /\ Observe

\* lines 142-143: the queue stayed empty until the 2 s of the get had
\* passed; queue.Empty is caught and None returned.  What the other threads
\* do during those 2 s is not constrained.
TakeTimeout(t) ==
    /\ takePc[t] = "get"
    /\ QueueEmpty(queue)
    /\ takeRet' = [takeRet EXCEPT ![t] = RetNone]
    /\ takePc' = [takePc EXCEPT ![t] = "idle"]
    /\ UNCHANGED << takeVal, takeSeen, takes, delivered >>
    /\ UNCHANGED << sessionVars, mailboxVars, loopVars, closeVars, sendVars,
                    parseVars >>
    /\ Observe

\* lines 140-141: task_done (ValueError when called more often than items
\* were put), then return value.
TakeTaskDone(t) ==
    /\ takePc[t] = "task_done"
    /\ IF unfinished <= 0
       THEN /\ takeRet' = [takeRet EXCEPT ![t] = RetRaised]
            /\ UNCHANGED << unfinished, delivered >>
       ELSE /\ unfinished' = unfinished - 1
            /\ takeRet' = [takeRet EXCEPT ![t] = RetPacket(takeVal[t])]
            /\ delivered' = [delivered EXCEPT ![takeVal[t].timestamp] = @ + 1]
    /\ takePc' = [takePc EXCEPT ![t] = "idle"]
    /\ UNCHANGED << takeVal, takeSeen, takes, queue >>
    /\ UNCHANGED << sessionVars, loopVars, closeVars, sendVars, parseVars >>
    /\ Observe

Take == \E t \in Takers :
    \/ TakeCall(t)
    \/ TakeGet(t)
    \/ TakeTimeout(t)
    \/ TakeTaskDone(t)

\* The steps that carry a get_state call in progress to its return.
TakeReturn(t) == TakeGet(t) \/ TakeTimeout(t) \/ TakeTaskDone(t)

(***************************************************************************)
(* The front-end queries, applied to what board.get_state() gave them:     *)
(* `if state:` holds for every SensorPacket and fails for None; an         *)
(* exception of get_state passes through the tool.                         *)
(***************************************************************************)
ToolResult(state, field) ==
    CASE state.st = "packet" -> [ret |-> "str", val |-> field]
      [] state.st = "raise"  -> [ret |-> "raise", val |-> PyNone]
      [] OTHER               -> [ret |-> "None", val |-> PyNone]

\* lines 221-228
get_current_temperature(state) == ToolResult(state, state.pkt.hs3003_t_c)

\* lines 230-237
get_current_gyro(state) == ToolResult(state, state.pkt.gyro_dps)

\* lines 239-246
get_current_accelerometer(state) == ToolResult(state, state.pkt.acc_g)

----------------------------------------------------------------------------
(***************************************************************************)
(* close, called by the main thread (twice on KeyboardInterrupt: in the    *)
(* except clause and in the finally clause).                               *)
(***************************************************************************)
CloseFlag_Toggle(r) == ~r

\* line 177: the value close() gives self._running.
CloseFlag(r) == FALSE

\* self.ser.close(): releases the handle of an open port and marks the port
\* closed; on a closed port it does nothing.
SerCloseReleases(open) == open

\* line 177: self._running = False
CloseCall ==
    /\ closePc = "idle"
    /\ closeCalls < MaxCloses
    /\ closeCalls' = closeCalls + 1
    /\ running' = CloseFlag(running)
    /\ closePc' = "sleep"
    /\ UNCHANGED << serOpen, serReleases, ctorRet, closesDone >>
    /\ UNCHANGED << mailboxVars, loopVars, takeVars, sendVars, parseVars >>
    /\ Observe

\* line 178: time.sleep(0.1) has passed.
CloseSleep ==
    /\ closePc = "sleep"
    /\ closePc' = "ser_close"
    /\ UNCHANGED << closeCalls, closesDone >>
    /\ UNCHANGED << sessionVars, mailboxVars, loopVars, takeVars, sendVars,
                    parseVars >>
    /\ Observe

\* lines 179-182: self.ser.close(), then close() returns.
CloseSer ==
    /\ closePc = "ser_close"
    /\ serOpen' = FALSE
    /\ serReleases' = IF SerCloseReleases(serOpen)
                      THEN serReleases + 1 ELSE serReleases
    /\ closesDone' = closesDone + 1
    /\ closePc' = "idle"
    /\ UNCHANGED << running, ctorRet, closeCalls >>
    /\ UNCHANGED << mailboxVars, loopVars, takeVars, sendVars, parseVars >>
    /\ Observe

Close ==
    \/ CloseCall
    \/ CloseSleep
    \/ CloseSer

----------------------------------------------------------------------------
(***************************************************************************)
(* The session: the reading loop, the callers of get_state and the main    *)
(* thread's close, interleaved.                                            *)
(***************************************************************************)
Init == InitSession /\ InitSend /\ InitParse

Next == Loop \/ Take \/ Close

Spec == Init /\ [][Next]_vars

\* The reading-loop thread is scheduled again and again while it has a step
\* to take, and a readline it is blocked in returns (a line, a timeout or an
\* error).
FairSpec == Spec /\ WF_vars(Loop)

\* A thread inside get_state is scheduled again and again, and the timed
\* get it waits in ends: with an item, or when its 2 s have passed.
FairTakeSpec == Spec /\ \A t \in Takers : WF_vars(TakeReturn(t))

----------------------------------------------------------------------------
(***************************************************************************)
(* The decoder applied to one line: parse_packet(parseLine).               *)
(***************************************************************************)
\* The values a member of an object line may carry: a float (21.5), an
\* int, a string, null, and lists of two, three and four numbers.
JsonValues ==
    { JFloat(215), JInt(7), JStr, JNull,
      JList(<<1, 2>>), JList(<<1, 2, 3>>), JList(<<1, 2, 3, 4>>) }

\* The members of object lines: the ten recognized keys and one other key.
JsonMembers == (RecognizedKeys \cup {"extra"}) \X JsonValues

SeqsUpTo(S, n) == UNION { [1..k -> S] : k \in 0..n }

\* The input lines of the decoder: free text, JSON of every other type, and
\* the JSON objects of at most MaxMembers members.
ParseLines ==
    { [t |-> k, m |-> << >>] : k \in {"text", "int", "str", "list", "null"} }
    \cup { [t |-> "obj", m |-> ms] : ms \in SeqsUpTo(JsonMembers, MaxMembers) }

InitDecoder ==
    /\ parseLine \in ParseLines
    /\ parseOut = [ret |-> "pending", pkt |-> NoPacket]

\* parse_packet(parseLine) is called; the clock reads 1.
ParseCall ==
    /\ parseOut.ret = "pending"
    /\ parseOut' = parse_packet(parseLine, 1)
    /\ UNCHANGED parseLine
    /\ UNCHANGED << sessionVars, mailboxVars, loopVars, takeVars, sawEmpty,
                    closeVars, sendVars >>

InitParseSpec == InitSession /\ InitSend /\ InitDecoder

NextParse == ParseCall

SpecParse == InitParseSpec /\ [][NextParse]_vars

----------------------------------------------------------------------------
(***************************************************************************)
(* The command methods.  A command line is a sequence of one-character     *)
(* strings; every character is ASCII, so msg.encode("utf-8") yields one    *)
(* byte per character.                                                     *)
(***************************************************************************)
Min(a, b) == IF a < b THEN a ELSE b
Max(a, b) == IF a > b THEN a ELSE b

DigitChar(d) == <<"0", "1", "2", "3", "4", "5", "6", "7", "8", "9">>[d + 1]

RECURSIVE Digits(_)
Digits(n) ==
    IF n < 10 THEN << DigitChar(n) >>
    ELSE Digits(n \div 10) \o << DigitChar(n % 10) >>

\* "{}".format(n) for an int n.
IntStr(n) == IF n < 0 THEN <<"-">> \o Digits(0 - n) ELSE Digits(n)

Clamp_NoLower(x) == Min(255, x)

\* max(0, min(255, int(x)))
Clamp(x) == Max(0, Min(255, x))

\* "RGB={},{},{}".format(r, g, b)
RgbMsg(r, g, b) ==
    <<"R", "G", "B", "=">> \o IntStr(r) \o <<",">> \o IntStr(g)
        \o <<",">> \o IntStr(b)

LedOnMsg  == <<"L", "E", "D", "=", "O", "N">>
LedOffMsg == <<"L", "E", "D", "=", "O", "F", "F">>

\* _send, lines 150-151: the line with its terminator.
SendLine(msg) ==
    IF Len(msg) > 0 /\ msg[Len(msg)] = "\n" THEN msg ELSE msg \o <<"\n">>

\* The rgb calls the callers make besides the presets.
RgbCalls == { <<300, 0 - 5, 128>> }

\* A command method hands its line to _send, which calls ser.write.
StartSend(c, msg) ==
    /\ sendMsg' = [sendMsg EXCEPT ![c] = SendLine(msg)]
    /\ sendBuf' = [sendBuf EXCEPT ![c] = SendLine(msg)]
    /\ chunks' = [chunks EXCEPT ![c] = 0]
    /\ sendPc' = [sendPc EXCEPT ![c] = "write"]

\* A caller begins a command call.
BeginCall(c) ==
    /\ sendPc[c] = "idle"
    /\ sendCalls < MaxCmds
    /\ sendCalls' = sendCalls + 1
    /\ sendRet' = [sendRet EXCEPT ![c] = "none"]

NotSend ==
    UNCHANGED << sessionVars, mailboxVars, loopVars, takeVars, sawEmpty,
                 closeVars, parseVars >>

\* lines 113-114
led_on(c) ==
    /\ BeginCall(c)
    /\ StartSend(c, LedOnMsg)
    /\ UNCHANGED << wire, rgbArgs >>
    /\ NotSend

\* lines 116-117
led_off(c) ==
    /\ BeginCall(c)
    /\ StartSend(c, LedOffMsg)
    /\ UNCHANGED << wire, rgbArgs >>
    /\ NotSend

\* rgb(r, g, b) is called.
CallRgb(c, r, g, b) ==
    /\ BeginCall(c)
    /\ rgbArgs' = [rgbArgs EXCEPT ![c] = <<r, g, b>>]
    /\ sendPc' = [sendPc EXCEPT ![c] = "rgb"]
    /\ UNCHANGED << wire, sendBuf, sendMsg, chunks >>
    /\ NotSend

rgb_call(c) == \E a \in RgbCalls : CallRgb(c, a[1], a[2], a[3])

\* lines 125-135: the presets call rgb.
red_LED(c)    == CallRgb(c, 255, 0, 0)
blue_LED(c)   == CallRgb(c, 0, 0, 255)
yellow_LED(c) == CallRgb(c, 255, 255, 0)
off(c)        == CallRgb(c, 0, 0, 0)

\* lines 120-123: the body of rgb.
rgb(c) ==
    /\ sendPc[c] = "rgb"
    /\ StartSend(c, RgbMsg(Clamp(rgbArgs[c][1]), Clamp(rgbArgs[c][2]),
                           Clamp(rgbArgs[c][3])))
    /\ UNCHANGED << wire, rgbArgs, sendRet, sendCalls >>
    /\ NotSend

WriteRaises_Never(open) == FALSE

\* ser.write raises (PortNotOpenError) on a port that is not open.
WriteRaises(open) == ~open

\* line 152: self.ser.write(bytes).  No lock of the session is held.  On a
\* port that is not open the call raises.  On an open port the bytes go to
\* the link in one or more os.write calls, each of which takes some
\* non-empty prefix of what is left; the last of MaxChunks calls takes all.
SerWrite(c) ==
    /\ sendPc[c] = "write"
    /\ IF WriteRaises(serOpen)
       THEN /\ sendRet' = [sendRet EXCEPT ![c] = "raise"]
            /\ sendPc' = [sendPc EXCEPT ![c] = "idle"]
            /\ sendBuf' = [sendBuf EXCEPT ![c] = << >>]
            /\ UNCHANGED << wire, chunks >>
       ELSE \E n \in 1..Len(sendBuf[c]) :
            /\ chunks[c] + 1 < MaxChunks \/ n = Len(sendBuf[c])
            /\ wire' = wire \o SubSeq(sendBuf[c], 1, n)
            /\ sendBuf' = [sendBuf EXCEPT
                             ![c] = SubSeq(@, n + 1, Len(@))]
            /\ chunks' = [chunks EXCEPT ![c] = @ + 1]
            /\ sendPc' = [sendPc EXCEPT
                            ![c] = IF n = Len(sendBuf[c])
                                   THEN "idle" ELSE "write"]
            /\ sendRet' = [sendRet EXCEPT
                             ![c] = IF n = Len(sendBuf[c])
                                    THEN "ok" ELSE @]
    /\ UNCHANGED << sendMsg, rgbArgs, sendCalls >>
    /\ NotSend

\* The steps of the command calls of one caller.
CommandOf(c) ==
    \/ led_on(c)
    \/ led_off(c)
    \/ rgb_call(c)
    \/ red_LED(c)
    \/ blue_LED(c)
    \/ yellow_LED(c)
    \/ off(c)
    \/ rgb(c)
    \/ SerWrite(c)

Command == \E c \in Callers : CommandOf(c)

\* Command calls made from two threads of an open session.
SpecCmd == Init /\ [][Command]_vars

\* The reading loop on a link that delivers nothing: every readline ends
\* with the read timeout or with an error.
SilentLoop ==
    \/ LoopWhile
    \/ LoopReadline
    \/ LoopReadTimeout
    \/ LoopReadError

\* Command calls of one thread (led_on, led_off, rgb, and of the presets,
\* which differ only in their constants, off) made while the main thread
\* closes the session and the loop reads a silent link.
NextStop ==
    \/ led_on("c1")
    \/ led_off("c1")
    \/ rgb_call("c1")
    \/ off("c1")
    \/ rgb("c1")
    \/ SerWrite("c1")
    \/ Close
    \/ SilentLoop

SpecStop == Init /\ [][NextStop]_vars

(***************************************************************************)
(* Construction.  Before Nano33SenseRev2(PORT, ...) at line 200 has run     *)
(* there is no session: no port, no flag, no queue, no thread.  Line 101   *)
(* opens the port; serial.Serial raises when it cannot, __init__ catches   *)
(* nothing, and the lines after it (the flag, the queue, the thread) run   *)
(* only when it returned.  A module whose line 200 raised defines no board *)
(* and no tool, so nothing calls a method of the session.                  *)
(***************************************************************************)
InitCtor ==
    /\ running = FALSE
    /\ serOpen = FALSE
    /\ serReleases = 0
    /\ ctorRet = "pending"
    /\ queue = << >>
    /\ unfinished = 0
    /\ loopPc = "unstarted"
    /\ raw = NoLine
    /\ pkt = NoPacket
    /\ now = 0
    /\ linesRead = 0
    /\ drained = FALSE
    /\ lastPut = 0
    /\ callbacks = 0
    /\ readsAfterStop = 0
    /\ takePc = [t \in Takers |-> "idle"]
    /\ takeVal = [t \in Takers |-> NoPacket]
    /\ takeRet = [t \in Takers |-> RetPending]
    /\ takeSeen = [t \in Takers |-> 0]
    /\ sawEmpty = [t \in Takers |-> FALSE]
    /\ takes = 0
    /\ delivered = [n \in 1..MaxLines |-> 0]
    /\ closePc = "idle"
    /\ closeCalls = 0
    /\ closesDone = 0

ThreadStarted_Always(opened) == TRUE

\* lines 109-110 are reached exactly when line 101 returned.
ThreadStarted(opened) == opened

\* lines 101-110: __init__, with the port opening or failing to open.
Construct ==
    /\ ctorRet = "pending"
    /\ \E opened \in BOOLEAN :
          /\ serOpen' = opened
          /\ running' = opened
          /\ loopPc' = IF ThreadStarted(opened) THEN "while" ELSE "unstarted"
          /\ ctorRet' = IF opened THEN "ok" ELSE "raise"
    /\ UNCHANGED << serReleases, raw, pkt, now, linesRead, drained, lastPut,
                    callbacks, readsAfterStop >>
    /\ UNCHANGED << mailboxVars, takeVars, sawEmpty, closeVars, sendVars,
                    parseVars >>

\* The constructor, the loop thread it may have started, and a thread that
\* calls led_on on the session the constructor returned.
NextCtor ==
    \/ Construct
    \/ Loop
    \/ ctorRet = "ok" /\ led_on("c1")
    \/ ctorRet = "ok" /\ SerWrite("c1")

InitCtorSpec == InitCtor /\ InitSend /\ InitParse

SpecCtor == InitCtorSpec /\ [][NextCtor]_vars

(***************************************************************************)
(* rgb applied to one triple of arguments: a caller has just called        *)
(* rgb(r, g, b), every argument drawn from RgbInputs, on an open session.  *)
(***************************************************************************)
RgbInputs == {0 - 5, 0, 128, 255, 256, 300}

InitRgb ==
    /\ InitSession /\ InitParse
    /\ wire = << >>
    /\ sendPc = [c \in Callers |-> IF c = "c1" THEN "rgb" ELSE "idle"]
    /\ sendBuf = [c \in Callers |-> << >>]
    /\ sendMsg = [c \in Callers |-> << >>]
    /\ chunks = [c \in Callers |-> 0]
    /\ \E r, g, b \in RgbInputs :
          rgbArgs = [c \in Callers |->
                        IF c = "c1" THEN <<r, g, b>> ELSE <<0, 0, 0>>]
    /\ sendRet = [c \in Callers |-> "none"]
    /\ sendCalls = 1

NextRgb == \E c \in Callers :
    \/ rgb(c)
    \/ SerWrite(c)

SpecRgb == InitRgb /\ [][NextRgb]_vars

----------------------------------------------------------------------------
(***************************************************************************)
(* Properties of the mailbox.                                              *)
(***************************************************************************)

\* C1: a get_state call returns no data only if the mailbox was empty at
\* some moment of the call (with one publish racing one take: only if the
\* take ran before the publish into an empty mailbox), and a packet it
\* returns is a whole published reading.  A take that overlaps a publish
\* replacing an unconsumed reading must not come back empty-handed.
C1_NoLostReading ==
    \A t \in Takers :
        /\ takeRet[t].st = "None" => sawEmpty[t]
        /\ takeRet[t].st = "packet" =>
               takeRet[t].pkt.timestamp \in 1..lastPut

C2_SlotInv ==
    /\ Len(queue) <= 1
    /\ queue # << >> => queue[1].timestamp = lastPut

C2_PublishStep ==
    (loopPc = "put" /\ loopPc' # "put") => queue' = << pkt >>

\* C2: newest wins.  The queue never holds more than one reading, a reading
\* it holds is the one most recently published, and the step that completes
\* a publish leaves exactly the published reading in the queue.
C2_NewestWins == [] C2_SlotInv /\ [][C2_PublishStep]_vars

\* C2 witness: two readings were published with no take in between, and the
\* one take made since returned the second.
C2_Witness ==
    /\ takes = 1
    /\ lastPut = 2
    /\ \E t \in Takers :
          /\ takeRet[t].st = "packet"
          /\ takeRet[t].pkt.timestamp = 2

\* C3: no double consumption.  No reading is returned by more than one
\* get_state call, a reading a call obtains is the most recently published
\* one at the moment it is obtained, and no call raises.
C3_NoDoubleConsumption ==
    /\ \A n \in DOMAIN delivered : delivered[n] <= 1
    /\ \A t \in Takers :
          /\ takePc[t] = "task_done" =>
                 /\ takeVal[t].timestamp >= 1
                 /\ takeVal[t].timestamp = takeSeen[t]
          /\ takeRet[t].st = "packet" =>
                 takeRet[t].pkt.timestamp = takeSeen[t]
          /\ takeRet[t].st # "raise"

\* C3 witness: one reading was published, one take returned it and the take
\* after it, with no publish in between, returned no data.
C3_Witness ==
    /\ lastPut = 1
    /\ linesRead = 1
    /\ takes = 2
    /\ delivered[1] = 1
    /\ \E t, u \in Takers :
          /\ takeRet[t].st = "packet"
          /\ takeRet[u].st = "None"

\* The packet p carries exactly the fields of the object line: the value of
\* every recognized key the line has, None in every other field.
ExactFieldsOf(p, line) ==
    \A key \in RecognizedKeys :
        Field(p, key) = IF key \in MemberKeys(line.m)
                        THEN line.m[LastIndex(line.m, key)][2]
                        ELSE PyNone

\* The reading of the last publish that ended has not been taken, and no
\* later publish has removed it.
PublishedUntaken ==
    /\ lastPut >= 1
    /\ delivered[lastPut] = 0
    /\ \A t \in Takers :
          ~(takePc[t] = "task_done" /\ takeVal[t].timestamp = lastPut)
    /\ ~(InPublish /\ drained)

C12_Available ==
    PublishedUntaken =>
        /\ Len(queue) = 1
        /\ queue[1].timestamp = lastPut
        /\ \E line \in SerialLines :
              line.t = "obj" /\ ExactFieldsOf(queue[1], line)

C12_Returned ==
    \A t \in Takers :
        takeRet[t].st = "packet" =>
            \E line \in SerialLines :
                line.t = "obj" /\ ExactFieldsOf(takeRet[t].pkt, line)

C12_TakeStep ==
    \A t \in Takers :
        /\ (takePc[t] = "get" /\ takePc'[t] # "get" /\ queue # << >>) =>
              /\ takePc'[t] = "task_done"
              /\ takeVal'[t] = queue[1]
        /\ (takePc[t] = "task_done" /\ takePc'[t] # "task_done") =>
              takeRet'[t] = RetPacket(takeVal[t])

\* C12: end-to-end delivery.  Once the loop has published the reading of a
\* packet line, the reading, carrying exactly the fields of the line, stays
\* in the mailbox until a get_state call takes it or a later publish
\* replaces it; a get_state call that finds it returns it and not None.
C12_EndToEnd ==
    /\ [] (C12_Available /\ C12_Returned)
    /\ [][C12_TakeStep]_vars

\* C12 witness: the one line read was the packet line, and the one
\* get_state call made returned a reading with its two fields and no other.
C12_Witness ==
    /\ linesRead = 1
    /\ lastPut = 1
    /\ takes = 1
    /\ \E t \in Takers :
          /\ takeRet[t].st = "packet"
          /\ takeRet[t].pkt.timestamp = 1
          /\ takeRet[t].pkt.hs3003_t_c = JFloat(215)
          /\ takeRet[t].pkt.hs3003_h_rh = JFloat(402)
          /\ takeRet[t].pkt.acc_g = PyNone

C16_SlotBound ==
    /\ Len(queue) <= 1
    /\ lastPut = 0 => queue = << >>

C16_SlotStep ==
    /\ Len(queue') > Len(queue) =>
          /\ loopPc = "put" /\ loopPc' = "while"
          /\ queue = << >> /\ queue' = << pkt >>
          /\ parse_packet(raw, now).ret = "packet"
          /\ pkt = parse_packet(raw, now).pkt
    /\ Len(queue') < Len(queue) =>
          /\ queue' = << >>
          /\ \/ \E t \in Takers :
                   /\ takePc[t] = "get" /\ takePc'[t] = "task_done"
                   /\ takeVal'[t] = queue[1]
             \/ loopPc = "clear_get" /\ loopPc' = "clear_done"
    /\ (\E t \in Takers : takePc[t] = "get" /\ takePc'[t] = "task_done")
          => (queue # << >> /\ queue' = << >>)
    /\ (loopPc = "clear_get" /\ loopPc' = "clear_done")
          => (queue # << >> /\ queue' = << >>)

\* C16: the mailbox holds zero or one reading in every state.  It is empty
\* until the first publish; a step fills it only as the put of a publish,
\* with the packet decoded from the line just read; a step empties it only
\* as the get of a get_state call, which takes the reading, or as the
\* clear_queue of a publish.
C16_ZeroOrOne == [] C16_SlotBound /\ [][C16_SlotStep]_vars

\* C16 witness: the first reading was published and taken, the second was
\* published and is in the mailbox.
C16_Witness ==
    /\ lastPut = 2
    /\ delivered[1] = 1
    /\ Len(queue) = 1
    /\ queue[1].timestamp = 2
    /\ loopPc = "while"

C17_Counts ==
    CASE loopPc = "on_packet" ->
             callbacks = now - 1 /\ lastPut = now - 1
      [] loopPc \in {"clear_get", "clear_done", "put"} ->
             callbacks = now /\ lastPut = now - 1
      [] OTHER ->
             callbacks = now /\ lastPut = now

C17_Step ==
    /\ callbacks' # callbacks =>
          /\ loopPc = "on_packet"
          /\ callbacks' = callbacks + 1
          /\ pkt.timestamp = callbacks'
    /\ lastPut' # lastPut =>
          /\ loopPc = "put"
          /\ lastPut' = lastPut + 1
          /\ lastPut' = callbacks
          /\ queue' = << pkt >>
    /\ (loopPc = "decode" /\ loopPc' # "decode") =>
          IF parse_packet(raw, now + 1).ret = "packet"
          THEN /\ loopPc' = "on_packet"
               /\ now' = now + 1
               /\ pkt' = parse_packet(raw, now + 1).pkt
          ELSE /\ loopPc' \in {"while", "crashed"}
               /\ UNCHANGED << queue, unfinished, callbacks, lastPut, now >>

\* C17: callback, then publish, once each per decoded line.  `now` counts
\* the lines decoded to a packet.  The callback is invoked only for the
\* packet just decoded, the publish ends only after that callback and
\* leaves that packet in the queue, and each count moves by one; whenever
\* the loop is outside the handling of a packet both counts equal the
\* number of decoded lines.  A line that does not decode to a packet
\* leaves the counts and the mailbox as they were.
C17_CallbackThenPublish == [] C17_Counts /\ [][C17_Step]_vars

\* C17 witness: of the two lines read the first decoded to a packet, which
\* was handed to the callback and published once, and the second did not.
C17_Witness ==
    /\ linesRead = 2
    /\ raw = TextLine
    /\ loopPc = "while"
    /\ now = 1 /\ callbacks = 1 /\ lastPut = 1
    /\ Len(queue) = 1 /\ queue[1].timestamp = 1

\* The task_done calls that are due: one per item a get has removed and
\* whose task_done has not run yet.
TaskDonesDue ==
    Cardinality({ t \in Takers : takePc[t] = "task_done" })
        + (IF loopPc = "clear_done" THEN 1 ELSE 0)

C19_QueueSafe ==
    /\ loopPc = "put" => ~QueueFull(queue)
    /\ unfinished = Len(queue) + TaskDonesDue
    /\ \A t \in Takers : takeRet[t].st # "raise"

C19_PublishStep ==
    (loopPc \in {"clear_get", "clear_done", "put"}) => loopPc' # "crashed"

\* C19: a publish never fails.  When the publisher reaches its put the
\* queue is not full, so put(block=False) raises no queue.Full; the queue's
\* count of unfinished tasks is always the items it holds plus the
\* task_done calls still due, so no task_done, of clear_queue or of
\* get_state, raises ValueError; and no step of a publish ends the thread.
C19_PublishNeverFails == [] C19_QueueSafe /\ [][C19_PublishStep]_vars

\* C19 witness: the second publish has ended, with its reading in the
\* queue, while a get_state call that took the first reading has its
\* task_done still due.
C19_Witness ==
    /\ lastPut = 2
    /\ loopPc = "while"
    /\ Len(queue) = 1
    /\ unfinished = 2
    /\ \E t \in Takers :
          takePc[t] = "task_done" /\ takeVal[t].timestamp = 1

C13_NoDataSafe ==
    \A t \in Takers :
        /\ takeRet[t].st # "raise"
        /\ takeRet[t].st = "None" =>
              /\ get_current_temperature(takeRet[t]).ret = "None"
              /\ get_current_gyro(takeRet[t]).ret = "None"
              /\ get_current_accelerometer(takeRet[t]).ret = "None"

C13_EmptyStep ==
    \A t \in Takers :
        (takePc[t] = "get" /\ takePc'[t] # "get" /\ queue = << >>) =>
            /\ takePc'[t] = "idle"
            /\ takeRet'[t].st = "None"

\* C13: no data is a normal outcome.  A get_state call whose timed get ends
\* on an empty queue returns None; no get_state call raises; every call
\* returns, before and after close() and whether or not a reading was ever
\* published; and the front-end queries given None return None.
C13_NoDataIsNormal ==
    /\ [] C13_NoDataSafe
    /\ [][C13_EmptyStep]_vars
    /\ \A t \in Takers : (takePc[t] # "idle") ~> (takePc[t] = "idle")

\* C13 witness: close() has returned, nothing was ever published, and a
\* get_state call returned None, which the temperature query passes on.
C13_Witness ==
    /\ closesDone >= 1
    /\ lastPut = 0
    /\ \E t \in Takers :
          /\ takePc[t] = "idle"
          /\ takeRet[t].st = "None"
          /\ get_current_temperature(takeRet[t]).ret = "None"

----------------------------------------------------------------------------
(***************************************************************************)
(* Properties of the reading loop and of shutdown.                         *)
(***************************************************************************)

\* C4: as long as close() has not been called the loop thread is alive.
C4_LoopAliveUntilClose == closeCalls = 0 => LoopAlive

C7_AtMostOneRead == readsAfterStop <= 1

\* C7: once the flag is cleared the loop begins at most one more readline,
\* and the thread ends.
C7_ShutdownObserved == [] C7_AtMostOneRead /\ (~running ~> ~LoopAlive)

\* C7 witness: the flag was cleared while the loop was past its check, the
\* loop began one more readline, and then left the loop.
C7_Witness == readsAfterStop = 1 /\ loopPc = "done"

C8_AfterClose ==
    closesDone >= 1 => (~running /\ ~serOpen /\ serReleases = 1)

C8_SecondCloseStep ==
    (closesDone >= 1 /\ closePc' # closePc) =>
        UNCHANGED << running, serOpen, serReleases, loopPc, queue, wire >>

\* C8: close is idempotent.  After a close() has returned the flag is
\* cleared, the port is closed and its handle was released exactly once;
\* no step of a later close() changes the session; and the loop stops.
C8_CloseIdempotent ==
    /\ [] C8_AfterClose
    /\ [][C8_SecondCloseStep]_vars
    /\ (closesDone >= 1 ~> ~LoopAlive)

\* C8 witness: close() has returned twice and the loop has stopped.
C8_Witness == closesDone = 2 /\ ~LoopAlive /\ serReleases = 1

\* C14: when the port cannot be opened the constructor raises to its
\* caller and there is no running session: the flag is not set, no loop
\* thread exists, nothing is read or published, and nothing is written.
C14_FailedOpen ==
    /\ (ctorRet # "ok") =>
          /\ ~running /\ ~serOpen
          /\ loopPc = "unstarted"
          /\ linesRead = 0 /\ lastPut = 0 /\ callbacks = 0
          /\ queue = << >> /\ unfinished = 0
          /\ wire = << >> /\ sendCalls = 0
    /\ (ctorRet = "raise") => ~ENABLED NextCtor

\* C14 witness: the constructor has raised.
C14_Witness == ctorRet = "raise" /\ loopPc = "unstarted" /\ ~running

\* C18: the port is closed only once the loop's last read has settled: in
\* no state is the port closed while a readline of the loop is outstanding.
C18_ClosedAfterLastRead == ~serOpen => loopPc # "reading"

C15_Stopped == closesDone >= 1 => (~running /\ ~serOpen)

C15_StoppedStep ==
    /\ ~serOpen => wire' = wire
    /\ closesDone >= 1 => (~running' /\ ~serOpen')
    /\ ~LoopAlive => loopPc' = loopPc
    /\ \A c \in Callers :
          (~serOpen /\ sendPc[c] = "write" /\ sendPc'[c] # "write") =>
              sendRet'[c] = "raise"

\* C15: stopped is terminal.  Once close() has returned the flag stays
\* clear and the port stays closed; with the port closed no step adds a
\* byte to the wire and a command call that reaches ser.write ends by
\* raising; and a loop thread that has ended never runs again.
C15_StoppedIsTerminal == [] C15_Stopped /\ [][C15_StoppedStep]_vars

\* C15 witness: close() has returned, the loop thread has ended, a command
\* call made on the closed session raised, and the wire holds nothing.
C15_Witness ==
    /\ closesDone >= 1
    /\ ~LoopAlive
    /\ sendCalls = 1
    /\ sendRet["c1"] = "raise"
    /\ wire = << >>

----------------------------------------------------------------------------
(***************************************************************************)
(* Properties of the decoder.                                              *)
(***************************************************************************)

\* C5: the decoder is total: parse_packet returns a packet or None and never
\* raises, and a line that is no JSON object yields None.
C5_DecoderTotal ==
    parseOut.ret # "pending" =>
        /\ parseOut.ret \in {"packet", "None"}
        /\ parseLine.t # "obj" => parseOut.ret = "None"

\* The value of a key is of the type the wire format gives the key.
WellTyped(key, val) ==
    CASE key \in FloatKeys -> val.k \in {"float", "int"}
      [] key \in IntKeys   -> val.k = "int"
      [] key \in ColorKeys -> val.k = "list" /\ Len(val.v) = 4
      [] key \in VecKeys   -> val.k = "list" /\ Len(val.v) = 3
      [] OTHER             -> TRUE

WellTypedObject(line) ==
    /\ line.t = "obj"
    /\ \A i \in 1..Len(line.m) : WellTyped(line.m[i][1], line.m[i][2])

\* C10: for an object whose recognized keys carry correctly typed values,
\* parse_packet returns a packet in which every recognized key of the
\* input is populated with the input's value for it (the last one, when
\* the text repeats the key) and every other field is None; keys that are
\* not recognized change nothing.
C10_FieldsMatchInput ==
    (parseOut.ret # "pending" /\ WellTypedObject(parseLine)) =>
        /\ parseOut.ret = "packet"
        /\ \A key \in RecognizedKeys :
              LET f == Field(parseOut.pkt, key)
                  m == parseLine.m
              IN  IF \E i \in 1..Len(m) : m[i][1] = key
                  THEN /\ f # PyNone
                       /\ \E i \in 1..Len(m) :
                             /\ m[i] = <<key, f>>
                             /\ \A j \in (i+1)..Len(m) : m[j][1] # key
                  ELSE f = PyNone

\* C10 witness: an object with one recognized key, correctly typed, and one
\* unrecognized key has been decoded to a packet.
C10_Witness ==
    /\ parseOut.ret = "packet"
    /\ WellTypedObject(parseLine)
    /\ Len(parseLine.m) = 2
    /\ parseLine.m[1][1] = "extra"
    /\ parseLine.m[2][1] = "hs3003_t_c"
    /\ parseOut.pkt.hs3003_t_c = JFloat(215)
    /\ parseOut.pkt.hs3003_h_rh = PyNone

\* C11: a recognized key whose value has a shape the field cannot take (a
\* string where a number belongs, a list of two where three axes belong)
\* leaves the field None in the packet parse_packet returns.
C11_IllShapedLeftNone ==
    parseOut.ret = "packet" =>
        \A key \in RecognizedKeys \cap MemberKeys(parseLine.m) :
            LET val == JsonToPy(parseLine.m[LastIndex(parseLine.m, key)][2])
            IN  ~WellTyped(key, val) => Field(parseOut.pkt, key) = PyNone

----------------------------------------------------------------------------
(***************************************************************************)
(* Properties of the commands.  What is on the wire is read back           *)
(* character by character.                                                 *)
(***************************************************************************)
DigitChars == {"0", "1", "2", "3", "4", "5", "6", "7", "8", "9"}

\* The digit a character stands for.
DigitVal(ch) == CHOOSE d \in 0..9 : DigitChar(d) = ch

\* A decimal numeral as Python prints a number >= 0: digits only, and no
\* leading zero except in "0" itself.
IsNumeral(str) ==
    /\ Len(str) >= 1
    /\ \A i \in 1..Len(str) : str[i] \in DigitChars
    /\ Len(str) > 1 => str[1] # "0"

RECURSIVE NumVal(_)
NumVal(str) ==
    IF Len(str) = 0 THEN 0
    ELSE 10 * NumVal(SubSeq(str, 1, Len(str) - 1)) + DigitVal(str[Len(str)])

\* The places <<i, j>> of the two commas of str when str (a line without
\* its terminator) has the shape RGB=<numeral>,<numeral>,<numeral>.
RgbCommas(str) ==
    { ij \in (6..Len(str)) \X (6..Len(str)) :
        /\ ij[1] < ij[2]
        /\ Len(str) >= 9
        /\ SubSeq(str, 1, 4) = <<"R", "G", "B", "=">>
        /\ str[ij[1]] = "," /\ str[ij[2]] = ","
        /\ IsNumeral(SubSeq(str, 5, ij[1] - 1))
        /\ IsNumeral(SubSeq(str, ij[1] + 1, ij[2] - 1))
        /\ IsNumeral(SubSeq(str, ij[2] + 1, Len(str))) }

\* The three components of an RGB line whose commas are at ij.
RgbValues(str, ij) ==
    << NumVal(SubSeq(str, 5, ij[1] - 1)),
       NumVal(SubSeq(str, ij[1] + 1, ij[2] - 1)),
       NumVal(SubSeq(str, ij[2] + 1, Len(str))) >>

\* str (without its terminator) is RGB=<x>,<y>,<z>.
IsRgbLine(str, x, y, z) ==
    \E ij \in RgbCommas(str) : RgbValues(str, ij) = <<x, y, z>>

\* str (without its terminator) is a line of the command protocol: LED=ON,
\* LED=OFF, or RGB=<r>,<g>,<b> with every component in 0..255.
IsCommandLine(str) ==
    \/ str = <<"L", "E", "D", "=", "O", "N">>
    \/ str = <<"L", "E", "D", "=", "O", "F", "F">>
    \/ \E ij \in RgbCommas(str) :
          \A k \in 1..3 : RgbValues(str, ij)[k] \in 0..255

\* The lines the wire holds so far: what stands between two terminators.
WireLines ==
    LET ends == { i \in 1..Len(wire) : wire[i] = "\n" }
        start(i) == IF \E k \in ends : k < i
                    THEN 1 + CHOOSE k \in ends :
                                 k < i /\ \A l \in ends : l < i => l <= k
                    ELSE 1
    IN  { SubSeq(wire, start(i), i - 1) : i \in ends }

\* C6: what is on the wire is a concatenation of whole command lines: every
\* terminated line of the byte stream is a command line.
C6_WholeCommandLines == \A str \in WireLines : IsCommandLine(str)

\* The component of an RGB line for an argument x, as the claim gives it.
Clamped(x) == IF x < 0 THEN 0 ELSE IF x > 255 THEN 255 ELSE x

\* C9: an rgb(r, g, b) call raises nothing, and when it has returned the
\* wire holds exactly the line RGB=<r'>,<g'>,<b'> with its terminator, each
\* component the argument clamped into 0..255.
C9_RgbClamped ==
    \A c \in Callers :
        /\ sendRet[c] # "raise"
        /\ sendRet[c] = "ok" =>
              /\ Len(wire) >= 1
              /\ wire[Len(wire)] = "\n"
              /\ IsRgbLine(SubSeq(wire, 1, Len(wire) - 1),
                           Clamped(rgbArgs[c][1]), Clamped(rgbArgs[c][2]),
                           Clamped(rgbArgs[c][3]))

\* C9 witness: rgb(300, -5, 128) has returned and RGB=255,0,128 is on the
\* wire.
C9_Witness ==
    /\ sendRet["c1"] = "ok"
    /\ rgbArgs["c1"] = <<300, 0 - 5, 128>>
    /\ wire = <<"R", "G", "B", "=", "2", "5", "5", ",", "0", ",",
                "1", "2", "8", "\n">>

====
